---------------------------- MODULE Spec2Model ----------------------------
(***************************************************************************)
(* Field-localization engine of the Doc-Extractor backend                  *)
(* (backend/mapper.py): the matching cascade that locates a field's        *)
(* snippet in the document text, the rectangle builder that turns a        *)
(* character span into per-line rectangles, and the loop of                *)
(* map_fields_to_rects that ties them together.                            *)
(*                                                                         *)
(* Strings are sequences of one-character strings.  Offsets are Python's   *)
(* 0-based offsets; a span is the pair <<start, end>>, half open.          *)
(***************************************************************************)
EXTENDS Integers, Sequences, FiniteSets, TLC

VARIABLES
    raw_text,       \* the reconstructed document text
    fields,         \* structured["fields"]: the candidate field records
    pages,          \* layout["pages"]: records [width, height, chars]
    flat_chars,     \* _flatten_chars(pages), built once per call
    idx,            \* position of the for loop over fields (1-based)
    offsets,        \* the loop's local: result of _find_best_match
    mapped_fields,  \* the output list under construction
    pc              \* "call" | "loop" | "done" | "raised"

vars == <<raw_text, fields, pages, flat_chars, idx, offsets, mapped_fields, pc>>

-----------------------------------------------------------------------------
(* Python values *)

\* Python's None, for an optional span and for an absent dictionary key.
None == <<>>

\* A record of the field list that is no mapping (e.g. the number 42).
NotADict == [is_dict |-> FALSE]

\* A label that is no string (e.g. a JSON list).
NonStringLabel == [nonstring |-> TRUE]

Min2(a, b) == IF a <= b THEN a ELSE b
Max2(a, b) == IF a >= b THEN a ELSE b
Abs(a) == IF a < 0 THEN -a ELSE a

-----------------------------------------------------------------------------
(* str methods *)

\* str.isspace() of one character.
isspace(c) == c \in {" ", "\t", "\n"}

\* str.lower() of one character, over the letters the model uses.
LowerChar(c) ==
    IF c = "A" THEN "a"
    ELSE IF c = "B" THEN "b"
    ELSE IF c = "C" THEN "c"
    ELSE c

\* str.lower()
lower(s) == [i \in 1..Len(s) |-> LowerChar(s[i])]

RECURSIVE lstrip(_)
lstrip(s) ==
    IF s = <<>> THEN <<>>
    ELSE IF isspace(Head(s)) THEN lstrip(Tail(s))
    ELSE s

RECURSIVE rstrip(_)
rstrip(s) ==
    IF s = <<>> THEN <<>>
    ELSE IF isspace(s[Len(s)]) THEN rstrip(SubSeq(s, 1, Len(s) - 1))
    ELSE s

\* str.strip()
strip(s) == rstrip(lstrip(s))

\* hay[i : i + len(needle)] == needle, i a 0-based offset
StartsAt(hay, needle, i) ==
    /\ i >= 0
    /\ i + Len(needle) <= Len(hay)
    /\ SubSeq(hay, i + 1, i + Len(needle)) = needle

\* str.find(needle, start): the lowest offset >= start where needle occurs,
\* or -1.
RECURSIVE find(_, _, _)
find(hay, needle, start) ==
    IF start + Len(needle) > Len(hay) THEN -1
    ELSE IF StartsAt(hay, needle, start) THEN start
    ELSE find(hay, needle, start + 1)

\* re.sub(r'\s+', ' ', s): every maximal run of whitespace becomes one space.
RECURSIVE collapse_ws(_)
collapse_ws(s) ==
    IF s = <<>> THEN <<>>
    ELSE IF isspace(Head(s))
         THEN <<" ">> \o collapse_ws(lstrip(s))
         ELSE <<Head(s)>> \o collapse_ws(Tail(s))

-----------------------------------------------------------------------------
(* Match Locator: mapper.py *)

\* Candidates shorter than these are skipped by the exact, the
\* case-insensitive and the normalized strategy.
MinExactLen == 2
MinCaseInsensitiveLen == 2
MinNormalizedLen == 2

\* Candidates shorter than this are skipped by the fuzzy strategy.
MinFuzzyLen == 3

\* The fuzzy strategy searches for no substring shorter than this.
MinSubstringLen == 3

\* The while loop of _find_exact_offsets / _find_case_insensitive_offsets:
\* every occurrence of needle, each reported with the length width.
RECURSIVE find_all(_, _, _, _, _)
find_all(hay, needle, width, start, acc) ==
    IF start = -1 THEN acc
    ELSE find_all(hay, needle, width, find(hay, needle, start + 1),
                  Append(acc, <<start, start + width>>))

\* Mutant of _find_exact_offsets: the occurrences are collected from the
\* right, the last one first.
_find_exact_offsets_rightmost(text, snippet) ==
    LET snippet_clean == strip(snippet) IN
    IF snippet_clean = <<>> \/ Len(snippet_clean) < MinExactLen THEN <<>>
    ELSE LET found == find_all(text, snippet_clean, Len(snippet_clean),
                               find(text, snippet_clean, 0), <<>>)
         IN  [i \in 1..Len(found) |-> found[Len(found) + 1 - i]]

_find_exact_offsets(text, snippet) ==
    LET snippet_clean == strip(snippet) IN
    IF snippet_clean = <<>> \/ Len(snippet_clean) < MinExactLen THEN <<>>
    ELSE find_all(text, snippet_clean, Len(snippet_clean),
                  find(text, snippet_clean, 0), <<>>)

_find_case_insensitive_offsets(text, snippet) ==
    LET snippet_clean == strip(snippet) IN
    IF snippet_clean = <<>> \/ Len(snippet_clean) < MinCaseInsensitiveLen
    THEN <<>>
    ELSE LET haystack == lower(text)
             needle   == lower(snippet_clean)
         IN  find_all(haystack, needle, Len(snippet_clean),
                      find(haystack, needle, 0), <<>>)

\* The walk of _find_normalized_offsets that maps the normalized offset
\* start back to an offset of the original text.
RECURSIVE normalized_walk(_, _, _, _, _)
normalized_walk(text, normalized_text, start, original_pos, normalized_pos) ==
    IF ~(normalized_pos < start /\ original_pos < Len(text))
    THEN original_pos
    ELSE LET step ==
                 IF isspace(text[original_pos + 1])
                 THEN IF normalized_pos = 0
                         \/ normalized_text[normalized_pos] # " "
                      THEN 1 ELSE 0
                 ELSE 1
         IN  normalized_walk(text, normalized_text, start,
                             original_pos + 1, normalized_pos + step)

_find_normalized_offsets(text, snippet) ==
    LET snippet_clean == strip(snippet) IN
    IF snippet_clean = <<>> \/ Len(snippet_clean) < MinNormalizedLen THEN <<>>
    ELSE LET normalized_snippet == collapse_ws(lower(snippet_clean))
             normalized_text    == collapse_ws(lower(text))
             start == find(normalized_text, normalized_snippet, 0)
         IN  IF start = -1 THEN <<>>
             ELSE LET original_pos ==
                          normalized_walk(text, normalized_text, start, 0, 0)
                  IN  << <<original_pos, original_pos + Len(snippet_clean)>> >>

\* Mutant of min_match_len: half the candidate, without the floor of 3.
min_match_len_half(n) == n \div 2

\* Mutant of min_match_len: the floor of 3, whatever the candidate's length.
min_match_len_floor(n) == MinSubstringLen

\* min_match_len of _find_fuzzy_match for a candidate of length n
min_match_len(n) == Max2(MinSubstringLen, n \div 2)

\* The two nested for loops of _find_fuzzy_match, from (length, start_pos) on.
RECURSIVE fuzzy_scan(_, _, _, _, _)
fuzzy_scan(raw_lower, snippet_lower, n, length, start_pos) ==
    IF length < min_match_len(n) THEN None
    ELSE IF start_pos > n - length
         THEN fuzzy_scan(raw_lower, snippet_lower, n, length - 1, 0)
         ELSE LET substring == SubSeq(snippet_lower, start_pos + 1,
                                      start_pos + length)
                  i == find(raw_lower, substring, 0)
              IN  IF i # -1 THEN <<i, i + length>>
                  ELSE fuzzy_scan(raw_lower, snippet_lower, n, length,
                                  start_pos + 1)

_find_fuzzy_match(text, snippet) ==
    LET snippet_clean == strip(snippet) IN
    IF snippet_clean = <<>> \/ Len(snippet_clean) < MinFuzzyLen THEN None
    ELSE fuzzy_scan(lower(text), lower(snippet_clean), Len(snippet_clean),
                    Len(snippet_clean), 0)

\* The first element of a non-empty offsets list, else the rest of the cascade.
FirstOr(found, otherwise) == IF found # <<>> THEN found[1] ELSE otherwise

\* Mutant of _find_best_match: the case-insensitive strategy is tried
\* before the exact one.
_find_best_match_case_first(text, snippet, value) ==
    LET try_value == value # <<>> /\ value # snippet
        s1 == _find_exact_offsets(text, snippet)
        s2 == IF try_value THEN _find_exact_offsets(text, value) ELSE <<>>
        s3 == _find_case_insensitive_offsets(text, snippet)
        s4 == IF try_value THEN _find_case_insensitive_offsets(text, value)
              ELSE <<>>
        s5 == _find_normalized_offsets(text, snippet)
        s6 == IF try_value THEN _find_normalized_offsets(text, value) ELSE <<>>
        s7 == _find_fuzzy_match(text, IF snippet # <<>> THEN snippet ELSE value)
    IN  FirstOr(s3, FirstOr(s4, FirstOr(s1, FirstOr(s2, FirstOr(s5,
            FirstOr(s6, s7))))))

\* Strategies 1-6 are each tried on the snippet and then, if the value is
\* non-empty and differs, on the value; strategy 7 takes one candidate only.
_find_best_match(text, snippet, value) ==
    LET try_value == value # <<>> /\ value # snippet
        s1 == _find_exact_offsets(text, snippet)
        s2 == IF try_value THEN _find_exact_offsets(text, value) ELSE <<>>
        s3 == _find_case_insensitive_offsets(text, snippet)
        s4 == IF try_value THEN _find_case_insensitive_offsets(text, value)
              ELSE <<>>
        s5 == _find_normalized_offsets(text, snippet)
        s6 == IF try_value THEN _find_normalized_offsets(text, value) ELSE <<>>
        s7 == _find_fuzzy_match(text, IF snippet # <<>> THEN snippet ELSE value)
    IN  FirstOr(s1, FirstOr(s2, FirstOr(s3, FirstOr(s4, FirstOr(s5,
            FirstOr(s6, s7))))))

-----------------------------------------------------------------------------
(* Offset Index and Rect Builder: mapper.py *)

\* Two characters are on the same visual line when their y0 differ by less
\* than this.
LineTolerance == 5

\* A character continues the running rectangle when its offset exceeds the
\* previous one by at most this.
MaxOffsetGap == 1

\* The size recorded for a page the layout does not have.
DefaultPageSide == 1

\* list.sort(key=global_offset) is stable: insert ch behind every element
\* whose key is not greater.
RECURSIVE insert_sorted(_, _)
insert_sorted(sorted, ch) ==
    IF sorted = <<>> THEN <<ch>>
    ELSE IF sorted[Len(sorted)].global_offset <= ch.global_offset
         THEN Append(sorted, ch)
         ELSE Append(insert_sorted(SubSeq(sorted, 1, Len(sorted) - 1), ch),
                     sorted[Len(sorted)])

RECURSIVE sort_by_offset(_, _)
sort_by_offset(flat, k) ==
    IF k = 0 THEN <<>>
    ELSE insert_sorted(sort_by_offset(flat, k - 1), flat[k])

RECURSIVE concat_chars(_, _)
concat_chars(pgs, k) ==
    IF k = 0 THEN <<>>
    ELSE concat_chars(pgs, k - 1) \o pgs[k].chars

_flatten_chars(pgs) ==
    LET flat == concat_chars(pgs, Len(pgs)) IN sort_by_offset(flat, Len(flat))

\* page_sizes.get(page, (1.0, 1.0)); page indexes are 0-based
page_size(pgs, page) ==
    IF page + 1 \in 1..Len(pgs)
    THEN <<pgs[page + 1].width, pgs[page + 1].height>>
    ELSE <<DefaultPageSide, DefaultPageSide>>

\* Mutant of should_merge: a y0 distance of exactly LineTolerance still
\* counts as the same line.
should_merge_inclusive(current, previous_offset, previous_y, ch) ==
    LET same_line == previous_y # <<>>
                     /\ Abs(ch.y0 - previous_y[1]) <= LineTolerance
    IN  /\ current # <<>>
        /\ current[1].page = ch.page
        /\ previous_offset # <<>>
        /\ ch.global_offset - previous_offset[1] <= MaxOffsetGap
        /\ same_line

\* Mutant of should_merge: an offset gap of one missing character is
\* bridged.
should_merge_bridging(current, previous_offset, previous_y, ch) ==
    LET same_line == previous_y # <<>>
                     /\ Abs(ch.y0 - previous_y[1]) < LineTolerance
    IN  /\ current # <<>>
        /\ current[1].page = ch.page
        /\ previous_offset # <<>>
        /\ ch.global_offset - previous_offset[1] <= MaxOffsetGap + 1
        /\ same_line

\* should_merge of _offset_to_rects; current and the previous_ values are
\* empty sequences before the first character.
should_merge(current, previous_offset, previous_y, ch) ==
    LET same_line == previous_y # <<>>
                     /\ Abs(ch.y0 - previous_y[1]) < LineTolerance
    IN  /\ current # <<>>
        /\ current[1].page = ch.page
        /\ previous_offset # <<>>
        /\ ch.global_offset - previous_offset[1] <= MaxOffsetGap
        /\ same_line

\* The branch of the loop that widens the running rectangle.
merge_into(cur, ch) ==
    [cur EXCEPT !.x0 = Min2(cur.x0, ch.x0), !.y0 = Min2(cur.y0, ch.y0),
                !.x1 = Max2(cur.x1, ch.x1), !.y1 = Max2(cur.y1, ch.y1)]

\* The branch of the loop that starts a rectangle.
new_rect(pgs, ch) ==
    [page |-> ch.page, x0 |-> ch.x0, y0 |-> ch.y0, x1 |-> ch.x1,
     y1 |-> ch.y1, page_width |-> page_size(pgs, ch.page)[1],
     page_height |-> page_size(pgs, ch.page)[2]]

\* The for loop of _offset_to_rects from the k-th relevant character on,
\* and the final append.
RECURSIVE rects_loop(_, _, _, _, _, _, _)
rects_loop(relevant, k, pgs, rects, current, previous_offset, previous_y) ==
    IF k > Len(relevant)
    THEN IF current # <<>> THEN Append(rects, current[1]) ELSE rects
    ELSE LET ch == relevant[k] IN
         IF should_merge(current, previous_offset, previous_y, ch)
         THEN rects_loop(relevant, k + 1, pgs, rects,
                         <<merge_into(current[1], ch)>>,
                         <<ch.global_offset>>, <<ch.y0>>)
         ELSE rects_loop(relevant, k + 1, pgs,
                         IF current # <<>> THEN Append(rects, current[1])
                         ELSE rects,
                         <<new_rect(pgs, ch)>>,
                         <<ch.global_offset>>, <<ch.y0>>)

\* Mutant of in_span: the end offset is taken into the span.
in_span_closed(start, end, ch) ==
    start <= ch.global_offset /\ ch.global_offset <= end

\* The characters of the span [start, end)
in_span(start, end, ch) == start <= ch.global_offset /\ ch.global_offset < end

_offset_to_rects(start, end, chars, pgs) ==
    LET InSpan(ch) == in_span(start, end, ch)
        relevant == SelectSeq(chars, InSpan)
    IN  IF relevant = <<>> THEN <<>>
        ELSE rects_loop(relevant, 1, pgs, <<>>, <<>>, <<>>, <<>>)

-----------------------------------------------------------------------------
(* Field Mapper: map_fields_to_rects *)

\* The label given to a field that has neither a label nor a name.
Unknown == "Unknown"

\* field.get("label") or field.get("name") or "Unknown".  A key holds a
\* string ("" also stands for an absent key) or NonStringLabel.
resolve_label(field) ==
    IF field.label # [str |-> ""] THEN field.label
    ELSE IF field.name # [str |-> ""] THEN field.name
    ELSE [str |-> Unknown]

\* str(field.get("value", "")).strip()
resolve_value(field) == strip(field.value)

\* str(field.get("snippet", "")).strip() or value
resolve_snippet(field) ==
    IF strip(field.snippet) # <<>> THEN strip(field.snippet)
    ELSE resolve_value(field)

\* field.get(...) of a record that is no mapping raises AttributeError;
\* ExtractedField(label=...) of a label that is no string raises
\* ValidationError.
field_raises(field) ==
    \/ ~field.is_dict
    \/ "str" \notin DOMAIN resolve_label(field)

\* rects of one field: lines 28-33
field_rects(found, chars, pgs) ==
    IF found # None THEN _offset_to_rects(found[1], found[2], chars, pgs)
    ELSE <<>>

\* ExtractedField(...).model_dump()
mapped_field(field, found, chars, pgs) ==
    [label   |-> resolve_label(field).str,
     value   |-> resolve_value(field),
     snippet |-> resolve_snippet(field),
     rects   |-> field_rects(found, chars, pgs)]

\* Mutant of emit: the record is put in front of the list.
emit_front(out, rec) == <<rec>> \o out

\* mapped_fields.append(...)
emit(out, rec) == Append(out, rec)

\* Lines 10-20: the field list, the page sizes and the Offset Index.
Begin ==
    /\ pc = "call"
    /\ flat_chars' = _flatten_chars(pages)
    /\ mapped_fields' = <<>>
    /\ idx' = 1
    /\ pc' = "loop"
    /\ UNCHANGED <<raw_text, fields, pages, offsets>>

\* Lines 22-42: one iteration of the loop over fields.  An exception leaves
\* the function: nothing is returned.
MapField ==
    /\ pc = "loop"
    /\ idx <= Len(fields)
    /\ LET field == fields[idx] IN
       IF ~field.is_dict
       THEN /\ pc' = "raised"
            /\ UNCHANGED <<offsets, mapped_fields, idx>>
       ELSE LET found == _find_best_match(raw_text, resolve_snippet(field),
                                          resolve_value(field))
            IN  /\ offsets' = found
                /\ IF field_raises(field)
                   THEN /\ pc' = "raised"
                        /\ UNCHANGED <<mapped_fields, idx>>
                   ELSE /\ mapped_fields' =
                               emit(mapped_fields,
                                    mapped_field(field, found, flat_chars,
                                                 pages))
                        /\ idx' = idx + 1
                        /\ pc' = "loop"
    /\ UNCHANGED <<raw_text, fields, pages, flat_chars>>

\* Line 44
Return ==
    /\ pc = "loop"
    /\ idx > Len(fields)
    /\ pc' = "done"
    /\ UNCHANGED <<raw_text, fields, pages, flat_chars, idx, offsets,
                   mapped_fields>>

Next == Begin \/ MapField \/ Return

-----------------------------------------------------------------------------
(* Field classifier boundary: structurer.py *)

\* The dictionary _extract_from_chunk keeps for a field of the response
validated_field(field) ==
    [is_dict |-> TRUE, label |-> resolve_label(field), name |-> [str |-> ""],
     value |-> resolve_value(field), snippet |-> resolve_snippet(field)]

\* The validation loop of _extract_from_chunk: records that are no mapping
\* and fields without a value are dropped.
RECURSIVE validated_fields(_, _)
validated_fields(response, k) ==
    IF k = 0 THEN <<>>
    ELSE LET rest == validated_fields(response, k - 1)
             field == response[k]
         IN  IF ~field.is_dict THEN rest
             ELSE IF resolve_value(field) # <<>>
                  THEN Append(rest, validated_field(field))
                  ELSE rest

-----------------------------------------------------------------------------
(* Text/layout extractor, OCR path: extractor.py *)

\* The entries _inject_ocr_chars makes for one OCR result whose first
\* character gets the offset start: the box is cut into equal columns.
ocr_entries(result, page_index, start) ==
    LET sanitized == strip(result.text)
        char_width == (result.x1 - result.x0) \div Max2(Len(sanitized), 1)
    IN  [i \in 1..Len(sanitized) |->
            [global_offset |-> start + i - 1, page |-> page_index,
             x0 |-> result.x0 + (i - 1) * char_width,
             x1 |-> result.x0 + i * char_width,
             y0 |-> result.y0, y1 |-> result.y1]]

\* The loop of _inject_ocr_chars over the first k results: the page's
\* entries, its text and the running offset.  After every result a space
\* goes into the text and advances the offset, without an entry.
RECURSIVE _inject_ocr_chars(_, _, _, _)
_inject_ocr_chars(ocr_results, k, page_index, start) ==
    IF k = 0 THEN [chars |-> <<>>, text |-> <<>>, offset |-> start]
    ELSE LET done == _inject_ocr_chars(ocr_results, k - 1, page_index, start)
             sanitized == strip(ocr_results[k].text)
         IN  IF sanitized = <<>> THEN done
             ELSE [chars |-> done.chars \o
                       ocr_entries(ocr_results[k], page_index, done.offset),
                   text |-> done.text \o sanitized \o <<" ">>,
                   offset |-> done.offset + Len(sanitized) + 1]

\* extract_pdf of a document of one image-only page of letter size (612 by
\* 792 points): the text ends with the page separator.
extract_pdf(ocr_results) ==
    LET page == _inject_ocr_chars(ocr_results, Len(ocr_results), 0, 0)
    IN  [raw_text |-> page.text \o <<"\n">>,
         layout |-> << [width |-> 612, height |-> 792,
                        chars |-> page.chars] >>]

-----------------------------------------------------------------------------
(* Inputs *)

\* Every string over alphabet of length at most n
Strings(alphabet, n) == UNION {[1..k -> alphabet] : k \in 0..n}

\* The strings that str.strip() leaves alone
Trimmed(alphabet, n) == {s \in Strings(alphabet, n) : strip(s) = s}

\* A well-formed field record with a label
Field(snippet, value) ==
    [is_dict |-> TRUE, label |-> [str |-> "Field"], name |-> [str |-> ""],
     value |-> value, snippet |-> snippet]

\* The layout of a one-page document whose characters stand on one line,
\* one CharRecord for each character of the text.
LineLayout(text) ==
    << [width |-> 612, height |-> 792,
        chars |-> [i \in 1..Len(text) |->
                     [global_offset |-> i - 1, page |-> 0,
                      x0 |-> i - 1, x1 |-> i, y0 |-> 0, y1 |-> 1]]] >>

\* The state at the call of map_fields_to_rects(structured, raw_text, layout)
Called(text, fieldList, layout) ==
    /\ raw_text = text
    /\ fields = fieldList
    /\ pages = layout
    /\ flat_chars = <<>>
    /\ idx = 0
    /\ offsets = None
    /\ mapped_fields = <<>>
    /\ pc = "call"

(* One field whose snippet and value are independent of each other, over a *)
(* text with letters of both cases and whitespace.                         *)
LocTextLen == 4
LocCandLen == 3
LocAlphabet == {"a", "A", " "}

InitLocate ==
    \E text \in Strings(LocAlphabet, LocTextLen),
       snippet \in Trimmed(LocAlphabet, LocCandLen),
       value \in Trimmed(LocAlphabet, LocCandLen - 1) :
        Called(text, <<Field(snippet, value)>>, LineLayout(text))

SpecLocate == InitLocate /\ [][Next]_vars

(* One field without a snippet, so that its value is the only candidate:   *)
(* a value in the classifier's spelling (upper-case B) over a lower-case   *)
(* text, long enough for half its length to exceed the fuzzy minimum.      *)
FuzzyTextLen == 4
FuzzyCandLen == 8
FuzzyTextAlphabet == {"a", "b"}
FuzzyCandAlphabet == {"a", "B"}

InitFuzzy ==
    \E text \in Strings(FuzzyTextAlphabet, FuzzyTextLen),
       value \in Strings(FuzzyCandAlphabet, FuzzyCandLen) :
        Called(text, <<Field(<<>>, value)>>, LineLayout(text))

SpecFuzzy == InitFuzzy /\ [][Next]_vars

(* One field whose value is longer than its snippet.                       *)
ValueTextLen == 3
ValueSnippetLen == 3
ValueLen == 4
ValueAlphabet == {"a", "b"}

InitValue ==
    \E text \in Strings(ValueAlphabet, ValueTextLen),
       snippet \in Strings(ValueAlphabet, ValueSnippetLen),
       value \in Strings(ValueAlphabet, ValueLen) :
        Called(text, <<Field(snippet, value)>>, LineLayout(text))

SpecValue == InitValue /\ [][Next]_vars

(* One field without a snippet over a text with runs of whitespace of two  *)
(* kinds.                                                                  *)
NormTextLen == 7
NormCandLen == 4
NormAlphabet == {"a", " ", "\t"}

InitNorm ==
    \E text \in Strings(NormAlphabet, NormTextLen),
       value \in Trimmed(NormAlphabet, NormCandLen) :
        Called(text, <<Field(<<>>, value)>>, LineLayout(text))

SpecNorm == InitNorm /\ [][Next]_vars

(* A list of field records, well formed or not, handed to the mapper      *)
(* either directly or by way of the classifier's validation.               *)
MaxFields == 2

MapText == <<"a", "A", " ", "a", "\n">>

MapLabels ==
    {[label |-> [str |-> ""], name |-> [str |-> ""]],
     [label |-> [str |-> "Policy"], name |-> [str |-> ""]],
     [label |-> [str |-> ""], name |-> [str |-> "Insured"]],
     [label |-> [str |-> "Policy"], name |-> [str |-> "Insured"]],
     [label |-> NonStringLabel, name |-> [str |-> ""]]}

MapValues == {<<>>, <<" ", "a", "A", "\n">>, <<"b", "b", "b">>}

MapSnippets == {<<>>, <<"\t", "A", " ", "a">>, <<" ">>}

MapRecords ==
    {NotADict} \cup
    {[is_dict |-> TRUE, label |-> l.label, name |-> l.name, value |-> v,
      snippet |-> sn] : l \in MapLabels, v \in MapValues, sn \in MapSnippets}

Init ==
    \E response \in UNION {[1..n -> MapRecords] : n \in 0..MaxFields},
       direct \in BOOLEAN :
        Called(MapText,
               IF direct THEN response
               ELSE validated_fields(response, Len(response)),
               LineLayout(MapText))

Spec == Init /\ [][Next]_vars

(* One field whose snippet is copied from the text, over every layout of  *)
(* two pages: an offset has a CharRecord or none, on either page, at one   *)
(* of three positions, and each page lists its characters in rising or in  *)
(* falling offset order.                                                   *)
RectTextLen == 3

RectLetters == <<"p", "q", "r", "s", "t", "u", "v", "w">>

RectText == SubSeq(RectLetters, 1, RectTextLen)

RectPositions ==
    {[x0 |-> 0, y0 |-> 0], [x0 |-> 2, y0 |-> 4], [x0 |-> 1, y0 |-> 5]}

RectPlaces ==
    {[present |-> FALSE]} \cup
    {[present |-> TRUE, page |-> pg, at |-> pos] :
        pg \in {0, 1}, pos \in RectPositions}

CharRecord(offset, place) ==
    [global_offset |-> offset, page |-> place.page,
     x0 |-> place.at.x0, x1 |-> place.at.x0 + 1,
     y0 |-> place.at.y0, y1 |-> place.at.y0 + 1]

Reversed(seq) == [i \in 1..Len(seq) |-> seq[Len(seq) + 1 - i]]

\* The characters of page pg, offsets rising
PageChars(places, pg) ==
    LET OnPage(o) == places[o].present /\ places[o].page = pg
        offs == SelectSeq([i \in 1..RectTextLen |-> i - 1], OnPage)
    IN  [k \in 1..Len(offs) |-> CharRecord(offs[k], places[offs[k]])]

RectLayout(places, falling) ==
    << [width |-> 612, height |-> 792,
        chars |-> IF falling THEN Reversed(PageChars(places, 0))
                  ELSE PageChars(places, 0)],
       [width |-> 595, height |-> 842,
        chars |-> IF falling THEN Reversed(PageChars(places, 1))
                  ELSE PageChars(places, 1)] >>

InitRects ==
    \E places \in [0..(RectTextLen - 1) -> RectPlaces],
       falling \in BOOLEAN,
       start \in 0..(RectTextLen - 2) :
        \E end \in (start + 2)..RectTextLen :
            Called(RectText,
                   <<Field(SubSeq(RectText, start + 1, end), <<>>)>>,
                   RectLayout(places, falling))

SpecRects == InitRects /\ [][Next]_vars

(* One field whose snippet is copied from the text of a one-page scanned  *)
(* document: the OCR engine reports up to OcrWords words of up to          *)
(* OcrWordLen letters, each in a box at one of three positions.            *)
OcrWords == 2
OcrWordLen == 2

OcrLetters == <<"d", "e", "f", "g", "h", "i", "j", "k", "l", "m", "n", "o">>

\* The k-th OCR result: a word of len letters in a box one unit high and
\* one unit wide for each letter
OcrResult(k, len, at) ==
    [text |-> SubSeq(OcrLetters, (k - 1) * OcrWordLen + 1,
                     (k - 1) * OcrWordLen + len),
     x0 |-> at.x0, x1 |-> at.x0 + len, y0 |-> at.y0, y1 |-> at.y0 + 1]

InitOcr ==
    \E n \in 1..OcrWords :
        \E lens \in [1..n -> 1..OcrWordLen], ats \in [1..n -> RectPositions] :
            LET doc == extract_pdf([k \in 1..n |->
                                       OcrResult(k, lens[k], ats[k])])
            IN  \E start \in 0..(Len(doc.raw_text) - 2) :
                    \E end \in (start + 2)..Len(doc.raw_text) :
                        Called(doc.raw_text,
                               <<Field(SubSeq(doc.raw_text, start + 1, end),
                                       <<>>)>>,
                               doc.layout)

SpecOcr == InitOcr /\ [][Next]_vars

-----------------------------------------------------------------------------
(* Vocabulary of the properties, stated without the code's loops *)

\* The loop has just handled field idx - 1: offsets and the last element of
\* mapped_fields belong to it.
Located == pc \in {"loop", "done"} /\ idx > 1

\* The snippet and the value handed to the Match Locator for that field
LastSnippet == mapped_fields[idx - 1].snippet
LastValue == mapped_fields[idx - 1].value
LastRects == mapped_fields[idx - 1].rects

\* s occurs in text at the 0-based offset i
OccursAt(text, s, i) ==
    /\ i >= 0
    /\ i + Len(s) <= Len(text)
    /\ \A k \in 1..Len(s) : text[i + k] = s[k]

Occurrences(text, s) == {i \in 0..Len(text) : OccursAt(text, s, i)}

Least(S) == CHOOSE i \in S : \A j \in S : i <= j

\* text[i] folded to lower case, every whitespace character to a space
Folded(s) == [i \in 1..Len(s) |->
                IF isspace(s[i]) THEN " " ELSE LowerChar(s[i])]

\* Whitespace normalization keeps position i of s: every character but a
\* whitespace character that follows another one.
IsKept(s, i) == ~isspace(s[i]) \/ i = 1 \/ ~isspace(s[i - 1])

\* The kept positions of s, in order: position n of the normalized string
\* comes from position KeptPositions(s)[n] of s.
KeptPositions(s) ==
    LET keep(i) == IsKept(s, i)
    IN  SelectSeq([i \in 1..Len(s) |-> i], keep)

\* s lower-cased with every run of whitespace collapsed to one space
Normalized(s) ==
    LET kept == KeptPositions(s)
    IN  [n \in 1..Len(kept) |-> Folded(s)[kept[n]]]

\* s occurs somewhere in text
OccursIn(text, s) == \E i \in 0..(Len(text) - Len(s)) : OccursAt(text, s, i)

HasExact(text, c) == Len(c) >= 2 /\ OccursIn(text, c)

HasCaseInsensitive(text, c) == Len(c) >= 2 /\ OccursIn(lower(text), lower(c))

HasNormalized(text, c) ==
    Len(c) >= 2 /\ OccursIn(Normalized(text), Normalized(c))

\* The lengths L of substrings of the lower-cased c, not below the fuzzy
\* minimum, that occur in the lower-cased text
FuzzyLengths(text, c) ==
    LET lt == lower(text)
        lc == lower(c)
    IN  {L \in 3..Len(c) :
            /\ 2 * L + 1 >= Len(c)
            /\ \E p \in 0..(Len(c) - L), i \in 0..(Len(lt) - L) :
                  OccursAt(lt, SubSeq(lc, p + 1, p + L), i)}

HasFuzzy(text, c) == FuzzyLengths(text, c) # {}

\* No strategy of the cascade matches c
NoMatchFor(text, c) ==
    /\ ~HasExact(text, c)
    /\ ~HasCaseInsensitive(text, c)
    /\ ~HasNormalized(text, c)
    /\ ~HasFuzzy(text, c)

-----------------------------------------------------------------------------
(* Properties *)

\* C2: when the snippet (length >= 2) occurs more than once in the text,
\* Locate returns the span of its leftmost occurrence.
C2_LeftmostOccurrence ==
    (/\ Located
     /\ Len(LastSnippet) >= 2
     /\ Cardinality(Occurrences(raw_text, LastSnippet)) > 1)
    => offsets = <<Least(Occurrences(raw_text, LastSnippet)),
                   Least(Occurrences(raw_text, LastSnippet))
                       + Len(LastSnippet)>>

\* C2 witness: a snippet that occurs at two offsets, located at the first
C2_Witness ==
    /\ Located
    /\ Len(LastSnippet) >= 2
    /\ Cardinality(Occurrences(raw_text, LastSnippet)) > 1
    /\ offsets # None
    /\ offsets[1] < Len(raw_text) - Len(LastSnippet)

\* C3 as claimed: whenever the snippet occurs in the text, exactly and case
\* for case, Locate returns the span of an exact occurrence.
C3_AnyExactOccurrenceWins ==
    (/\ Located
     /\ LastSnippet # <<>>
     /\ Occurrences(raw_text, LastSnippet) # {})
    => /\ offsets # None
       /\ offsets[1] \in Occurrences(raw_text, LastSnippet)
       /\ offsets[2] = offsets[1] + Len(LastSnippet)

\* C3 amended: whenever a snippet of length >= 2 occurs in the text,
\* exactly and case for case, Locate returns the span of an exact
\* occurrence, whatever the later strategies would find.
C3_ExactShortCircuit ==
    (/\ Located
     /\ Len(LastSnippet) >= 2
     /\ Occurrences(raw_text, LastSnippet) # {})
    => /\ offsets # None
       /\ offsets[1] \in Occurrences(raw_text, LastSnippet)
       /\ offsets[2] = offsets[1] + Len(LastSnippet)

\* C3 witness: the snippet occurs exactly, and occurs earlier in the text
\* when case is ignored; the exact occurrence is returned.
C3_Witness ==
    /\ Located
    /\ Len(LastSnippet) >= 2
    /\ Occurrences(raw_text, LastSnippet) # {}
    /\ Least(Occurrences(lower(raw_text), lower(LastSnippet)))
          < Least(Occurrences(raw_text, LastSnippet))
    /\ offsets # None
    /\ offsets[1] = Least(Occurrences(raw_text, LastSnippet))

\* C6: when no strategy matches the snippet or the value, also because a
\* candidate is too short for a strategy, the field is emitted with an
\* empty rect list and nothing is raised.
C6_NoMatchEmptyRects ==
    /\ pc # "raised"
    /\ (/\ Located
        /\ NoMatchFor(raw_text, LastSnippet)
        /\ NoMatchFor(raw_text, LastValue))
       => /\ Len(mapped_fields) = idx - 1
          /\ LastRects = <<>>

\* C6 witness: a field is emitted without rects although its snippet is
\* long enough for every strategy and the layout has characters.
C6_Witness ==
    /\ Located
    /\ NoMatchFor(raw_text, LastSnippet)
    /\ NoMatchFor(raw_text, LastValue)
    /\ Len(LastSnippet) >= 3
    /\ flat_chars # <<>>
    /\ Len(mapped_fields) = 1
    /\ LastRects = <<>>

\* The span the fuzzy strategy is specified to return for the candidate c:
\* the longest substring of c that occurs in the text, the leftmost such
\* substring of c, at its first occurrence in the text.
FuzzySpan(text, c) ==
    LET lt == lower(text)
        lc == lower(c)
        lengths == FuzzyLengths(text, c)
        L == CHOOSE m \in lengths : \A k \in lengths : k <= m
        Sub(q) == SubSeq(lc, q + 1, q + L)
        p == Least({q \in 0..(Len(c) - L) : Occurrences(lt, Sub(q)) # {}})
        at == Least(Occurrences(lt, Sub(p)))
    IN  <<at, at + L>>

\* Strategies 1-3 find nothing for c
NoPlainMatchFor(text, c) ==
    /\ ~HasExact(text, c)
    /\ ~HasCaseInsensitive(text, c)
    /\ ~HasNormalized(text, c)

\* C4 as claimed: when no strategy matches the snippet and only the fuzzy
\* strategy matches the value, Locate returns the fuzzy span of the value.
C4_FuzzyAppliedToValue ==
    (/\ Located
     /\ LastValue # LastSnippet
     /\ NoMatchFor(raw_text, LastSnippet)
     /\ NoPlainMatchFor(raw_text, LastValue)
     /\ HasFuzzy(raw_text, LastValue))
    => offsets = FuzzySpan(raw_text, LastValue)

\* C8: when strategies 1-3 find nothing, the fuzzy fallback returns the
\* span of the longest substring of the candidate (length n >= 3) that
\* occurs in the text, no shorter than max(3, floor(n / 2)), at the first
\* occurrence of the leftmost such substring; and no match when there is
\* none.
C8_FuzzyLongestSubstring ==
    (/\ Located
     /\ Len(LastSnippet) >= 3
     /\ NoPlainMatchFor(raw_text, LastSnippet)
     /\ NoPlainMatchFor(raw_text, LastValue))
    => IF HasFuzzy(raw_text, LastSnippet)
       THEN /\ offsets = FuzzySpan(raw_text, LastSnippet)
            /\ 2 * (offsets[2] - offsets[1]) + 1 >= Len(LastSnippet)
       ELSE offsets = None

\* C8 witness: a candidate of length 8 of which a substring of length 4,
\* not its first, is found, and none longer occurs.
C8_Witness ==
    /\ Located
    /\ Len(LastSnippet) = 8
    /\ NoPlainMatchFor(raw_text, LastSnippet)
    /\ FuzzyLengths(raw_text, LastSnippet) = {4}
    /\ Occurrences(lower(raw_text), SubSeq(lower(LastSnippet), 1, 4)) = {}
    /\ offsets = FuzzySpan(raw_text, LastSnippet)

\* C8 witness of the other branch: a substring of length 3 of a candidate
\* of length 8 occurs in the text, and Locate returns no match.
C8_WitnessTooShort ==
    /\ Located
    /\ Len(LastSnippet) = 8
    /\ \E q \in 0..5 :
          Occurrences(lower(raw_text),
                      SubSeq(lower(LastSnippet), q + 1, q + 3)) # {}
    /\ offsets = None

\* The normalized strategy is the one that decides for the candidate c:
\* the earlier strategies find neither the snippet nor the value.
NormalizedWins(text, c, v) ==
    /\ ~HasExact(text, c) /\ ~HasCaseInsensitive(text, c)
    /\ ~HasExact(text, v) /\ ~HasCaseInsensitive(text, v)
    /\ HasNormalized(text, c)

\* The offsets of the original text whose characters are not whitespace
\* and make up the leftmost occurrence of the normalized c in the
\* normalized text.
MatchedOffsets(text, c) ==
    LET nt == Normalized(text)
        nc == Normalized(c)
        at == Least(Occurrences(nt, nc))
        kept == KeptPositions(text)
    IN  {kept[k] - 1 : k \in {j \in (at + 1)..(at + Len(nc)) :
                                 ~isspace(text[kept[j]])}}

\* C10: when the whitespace-normalized strategy wins, the span it returns
\* contains the offset of at least one non-whitespace character of the
\* occurrence it found.
C10_NormalizedSpanOverlaps ==
    (/\ Located
     /\ NormalizedWins(raw_text, LastSnippet, LastValue))
    => /\ offsets # None
       /\ \E o \in MatchedOffsets(raw_text, LastSnippet) :
             offsets[1] <= o /\ o < offsets[2]

\* t is s without its leading and trailing whitespace
IsTrimOf(t, s) ==
    \E i \in 0..Len(s), j \in 0..Len(s) :
        /\ i <= j
        /\ t = SubSeq(s, i + 1, j)
        /\ \A k \in 1..i : isspace(s[k])
        /\ \A k \in (j + 1)..Len(s) : isspace(s[k])
        /\ t # <<>> => ~isspace(t[1]) /\ ~isspace(t[Len(t)])
        /\ t = <<>> => \A k \in 1..Len(s) : isspace(s[k])

\* A well-formed candidate field: a mapping whose label and name are
\* strings or absent
WellFormed(field) ==
    /\ field.is_dict
    /\ "str" \in DOMAIN field.label
    /\ "str" \in DOMAIN field.name

\* The label a well-formed field is given
LabelOf(field) ==
    IF field.label.str # "" THEN field.label.str
    ELSE IF field.name.str # "" THEN field.name.str
    ELSE "Unknown"

\* out is the mapped field derived from the candidate field
DerivedFrom(out, field) ==
    /\ out.label = LabelOf(field)
    /\ IsTrimOf(out.value, field.value)
    /\ IF \A k \in 1..Len(field.snippet) : isspace(field.snippet[k])
       THEN out.snippet = out.value
       ELSE IsTrimOf(out.snippet, field.snippet)

AllWellFormed == \A i \in 1..Len(fields) : WellFormed(fields[i])

\* C1: for a list of n well-formed fields (n = 0 included) the mapper
\* returns n mapped fields, the i-th derived from the i-th input field.
C1_OrderPreserved ==
    AllWellFormed =>
        /\ pc # "raised"
        /\ pc = "loop" => Len(mapped_fields) = idx - 1
        /\ pc = "done" => Len(mapped_fields) = Len(fields)
        /\ \A i \in 1..Len(mapped_fields) :
              DerivedFrom(mapped_fields[i], fields[i])

\* C1 witness: two different fields, returned in their order
C1_Witness ==
    /\ pc = "done"
    /\ Len(fields) = 2
    /\ Len(mapped_fields) = 2
    /\ mapped_fields[1].label = "Policy"
    /\ mapped_fields[2].label = "Unknown"
    /\ mapped_fields[1].snippet # mapped_fields[2].snippet

\* C5 as claimed: map_fields_to_rects never raises, whatever the field
\* records are.
C5_NeverRaises == pc # "raised"

\* Every CharRecord of the layout
LayoutChars == UNION {{pages[p].chars[k] : k \in 1..Len(pages[p].chars)} :
                         p \in 1..Len(pages)}

\* The CharRecords of the span found, start <= global_offset < end
SpanChars == {ch \in LayoutChars :
                 offsets[1] <= ch.global_offset /\ ch.global_offset < offsets[2]}

\* The k-th character of the span in offset order (offsets are unique)
SpanChar(k) ==
    CHOOSE ch \in SpanChars :
        Cardinality({o \in SpanChars : o.global_offset < ch.global_offset})
            = k - 1

\* The componentwise bounding box of a set of characters equals rect
Bounds(rect, chs) ==
    /\ \A ch \in chs : /\ rect.x0 <= ch.x0 /\ rect.y0 <= ch.y0
                       /\ rect.x1 >= ch.x1 /\ rect.y1 >= ch.y1
                       /\ rect.page = ch.page
    /\ \E ch \in chs : rect.x0 = ch.x0
    /\ \E ch \in chs : rect.y0 = ch.y0
    /\ \E ch \in chs : rect.x1 = ch.x1
    /\ \E ch \in chs : rect.y1 = ch.y1

\* The merge rule: ch, which follows prev in the span, continues the
\* rectangle prev is in
Continues(prev, ch) ==
    /\ ch.page = prev.page
    /\ ch.global_offset - prev.global_offset <= 1
    /\ ch.y0 - prev.y0 < 5
    /\ prev.y0 - ch.y0 < 5

\* The positions of the span at which the rule starts a new rectangle
Starts == {k \in 1..Cardinality(SpanChars) :
              k = 1 \/ ~Continues(SpanChar(k - 1), SpanChar(k))}

\* The rectangle the rule puts the k-th character of the span in
RectOf(k) == Cardinality({j \in Starts : j <= k})

\* C7: the characters of the span are split into rectangles by the merge
\* rule and by nothing else: a character continues the running rectangle
\* iff it is on its page, its offset is at most 1 beyond the previous
\* character's and its y0 is less than 5 from the previous character's.
C7_LineMergeBoundary ==
    (Located /\ offsets # None) =>
        /\ Len(LastRects) = Cardinality(Starts)
        /\ \A g \in 1..Len(LastRects) :
              Bounds(LastRects[g],
                     {SpanChar(k) : k \in {j \in 1..Cardinality(SpanChars) :
                                              RectOf(j) = g}})

\* C7 witness: three characters on one page at consecutive offsets, the
\* second 4 units from the first and merged, the third 5 units from the
\* second and in a rectangle of its own.
C7_Witness ==
    /\ Located
    /\ offsets = <<0, 3>>
    /\ Cardinality(SpanChars) = 3
    /\ \A k \in 1..3 : SpanChar(k).page = 0
    /\ SpanChar(1).y0 = 4 /\ SpanChar(2).y0 = 0 /\ SpanChar(3).y0 = 5
    /\ Len(LastRects) = 2
    /\ LastRects[1].y1 = 5
    /\ LastRects[2].y0 = 5

\* C9: the rectangles are built from exactly the characters of the span:
\* each is in one rectangle, on its page, and every rectangle is the
\* bounding box of its characters; no character means no rectangle.
C9_ExactlySpanChars ==
    (Located /\ offsets # None) =>
        LET n == Cardinality(SpanChars)
            m == Len(LastRects)
        IN  /\ n = 0 <=> m = 0
            /\ \E part \in [1..n -> 1..m] :
                  /\ \A g \in 1..m : \E k \in 1..n : part[k] = g
                  /\ \A k \in 1..n : \A j \in 1..k : part[j] <= part[k]
                  /\ \A g \in 1..m :
                        Bounds(LastRects[g],
                               {SpanChar(k) : k \in {j \in 1..n : part[j] = g}})

\* C9 witness: the pages list their characters in falling order, the span
\* ends where a character of the same line stands, and that character and
\* nothing else is left out of the one rectangle.
C9_Witness ==
    /\ Located
    /\ offsets = <<0, 2>>
    /\ Cardinality(LayoutChars) = 3
    /\ \A ch \in LayoutChars : ch.page = 1
    /\ {<<ch.global_offset, ch.y0>> : ch \in LayoutChars}
          = {<<0, 5>>, <<1, 4>>, <<2, 0>>}
    /\ pages[2].chars[1].global_offset = 2
    /\ Len(LastRects) = 1
    /\ LastRects[1].x0 = 1 /\ LastRects[1].x1 = 3 /\ LastRects[1].y0 = 4

\* The positions of the span whose character stands two offsets after the
\* one before it, with a space of the text in between that has no
\* CharRecord: the space the OCR path injects after a word
InjectedSpaceBreaks ==
    {b \in 2..Cardinality(SpanChars) :
        /\ SpanChar(b).global_offset = SpanChar(b - 1).global_offset + 2
        /\ raw_text[SpanChar(b - 1).global_offset + 2] = " "
        /\ \A ch \in LayoutChars :
              ch.global_offset # SpanChar(b - 1).global_offset + 1}

\* The span found covers characters of two words of one page and one
\* visual line, separated by exactly one injected space.
TwoWordsOnOneLine ==
    /\ Located
    /\ offsets # None
    /\ Cardinality(InjectedSpaceBreaks) = 1
    /\ \A b \in 2..Cardinality(SpanChars) :
          \/ b \in InjectedSpaceBreaks
          \/ SpanChar(b).global_offset = SpanChar(b - 1).global_offset + 1
    /\ \A c1 \in SpanChars, c2 \in SpanChars :
          /\ c1.page = c2.page
          /\ c1.y0 - c2.y0 < 5

\* The characters of the span before, or from, its position b on
WordBefore(b) == {SpanChar(k) : k \in 1..(b - 1)}
WordFrom(b) == {SpanChar(k) : k \in b..Cardinality(SpanChars)}

\* C11 as claimed: the characters of two words of one line that an
\* injected space separates are merged into a single rectangle.
C11_InjectedSpaceBridged ==
    TwoWordsOnOneLine => Len(LastRects) = 1

\* C11 amended: the offset-gap rule does not bridge an injected space; the
\* two words get one rectangle each, the bounding box of the word's
\* characters in the span.
C11_InjectedSpaceSplits ==
    TwoWordsOnOneLine =>
        /\ Len(LastRects) = 2
        /\ \A b \in InjectedSpaceBreaks :
              /\ Bounds(LastRects[1], WordBefore(b))
              /\ Bounds(LastRects[2], WordFrom(b))

\* C11 witness: two words of two letters each, the second to the right of
\* the first and 4 units lower, the span covering all four letters, and
\* two rectangles.
C11_Witness ==
    /\ TwoWordsOnOneLine
    /\ Cardinality(SpanChars) = 4
    /\ InjectedSpaceBreaks = {3}
    /\ Len(LastRects) = 2
    /\ LastRects[1].x0 = 0 /\ LastRects[1].x1 = 2 /\ LastRects[1].y0 = 0
    /\ LastRects[2].x0 = 2 /\ LastRects[2].x1 = 4 /\ LastRects[2].y0 = 4

\* C12 as claimed: every span Locate returns is a non-empty range inside
\* the text, 0 <= start < end <= len(fullText).
C12_SpanInsideText ==
    (Located /\ offsets # None) =>
        /\ 0 <= offsets[1]
        /\ offsets[1] < offsets[2]
        /\ offsets[2] <= Len(raw_text)

=============================================================================
